---------------------------- MODULE Spec2Model ----------------------------
(***************************************************************************)
(* Voice-interaction state machine of the chat front-end (src/index.tsx):  *)
(* speech-recognition session control, wake-word matching, voice commands, *)
(* speech synthesis, the inactivity / auto-stop / restart timers and the   *)
(* NonStop and Monologue (NTSP) modes.                                     *)
(*                                                                         *)
(* Execution model.  The application is single threaded: every event       *)
(* handler runs to completion.  React state written by a handler becomes   *)
(* visible at the re-render that follows the handler; the refs that mirror *)
(* React state (index.tsx 344-348) are copied in effects of that render.   *)
(* Inside a handler, state variables read through the closure and the      *)
(* mirror refs therefore still hold the values of the render in which the  *)
(* handler was created.  Functions that run later (the continuation of an  *)
(* awaited AI request, an utterance callback, the recognition handlers     *)
(* registered by the setup effect) read the React state captured by the    *)
(* render that created them; that captured state is a Snapshot record.     *)
(*                                                                         *)
(* Text is a sequence of tokens: a word token is an unbroken run of word   *)
(* characters, SP is one whitespace character.  Two adjacent word tokens   *)
(* are written without whitespace between them.                            *)
(***************************************************************************)
EXTENDS Integers, Sequences, FiniteSets, TLC

(***************************************************************************)
(* Bounds of the model.                                                    *)
(***************************************************************************)
MaxCancelled == 1    \* cancelled utterances whose error event is pending
MaxPending == 1      \* AI requests in flight
MaxTimers == 1       \* pending 100 ms restart timeouts
MaxFeedback == 2     \* pending 4 s banner timeouts

(***************************************************************************)
(* Text and regular expressions.                                           *)
(***************************************************************************)
SP == " "

Digits == {"15"}

Lower(t) == IF t = "Jura" THEN "jura" ELSE IF t = "Assistant" THEN "assistant" ELSE t

\* Tokens of one character that is no word character: "!" is an ordinary
\* character of a regular expression, "." is the wildcard.
Punct == {"!", "."}

\* what the regex element . matches among the tokens: a one-character token
AnyChar == {SP} \cup Punct

IsWordTok(t) == t \notin {SP} \cup Punct

\* parseInt(durationStr, 10)
parseInt(t) == IF t = "15" THEN 15 ELSE 0

RECURSIVE TrimLeft(_)
TrimLeft(t) == IF t # <<>> /\ Head(t) = SP THEN TrimLeft(Tail(t)) ELSE t

RECURSIVE TrimRight(_)
TrimRight(t) ==
    IF t # <<>> /\ t[Len(t)] = SP THEN TrimRight(SubSeq(t, 1, Len(t) - 1)) ELSE t

\* String.prototype.trim
Trim(t) == TrimRight(TrimLeft(t))

\* String.prototype.substring(from) with from a 1-based token index
Substring(t, from) == SubSeq(t, from, Len(t))

\* A pattern element: a set of admissible (lower-cased) tokens and a
\* quantifier: "one", "opt" (?) or "star" (*).
One(S) == [toks |-> S, q |-> "one"]
Opt(S) == [toks |-> S, q |-> "opt"]
Star(S) == [toks |-> S, q |-> "star"]

\* End positions (index after the last consumed token) of the matches of
\* pat[k..] against t starting at position i; flag 'i' of the regex makes
\* the comparison case-insensitive.
RECURSIVE MatchFrom(_, _, _, _)
MatchFrom(pat, k, t, i) ==
    IF k > Len(pat) THEN {i}
    ELSE LET e == pat[k]
             hit == i <= Len(t) /\ Lower(t[i]) \in e.toks
         IN  CASE e.q = "one" -> IF hit THEN MatchFrom(pat, k + 1, t, i + 1) ELSE {}
               [] e.q = "opt" -> MatchFrom(pat, k + 1, t, i)
                                   \cup (IF hit THEN MatchFrom(pat, k + 1, t, i + 1) ELSE {})
               [] OTHER       -> MatchFrom(pat, k + 1, t, i)
                                   \cup (IF hit THEN MatchFrom(pat, k, t, i + 1) ELSE {})

Max(S) == CHOOSE x \in S : \A y \in S : y <= x
Min(S) == CHOOSE x \in S : \A y \in S : x <= y

\* \b between positions i-1 and i of t
Boundary(t, i) ==
    LET before == i > 1 /\ IsWordTok(t[i - 1])
        after == i <= Len(t) /\ IsWordTok(t[i])
    IN  before # after

\* effectiveWakePhrase.replace(/ /g, '\\s*') wrapped in \b( ... )\b; the
\* phrase is not escaped, so a "." in it is the wildcard
WakePattern(phrase) ==
    [k \in 1..Len(phrase) |->
        IF phrase[k] = SP THEN Star({SP})
        ELSE IF phrase[k] = "." THEN One(AnyChar)
        ELSE One({Lower(phrase[k])})]

NoMatch == [found |-> FALSE, index |-> 0, end |-> 0]

\* finalTranscript.match(wakeWordRegex): leftmost match, \s* greedy.
\* index is match.index (1-based), end is match.index + match[0].length.
wakeWordRegex(t, phrase) ==
    LET pat == WakePattern(phrase)
        Ends(i) == {e \in MatchFrom(pat, 1, t, i) : Boundary(t, e)}
        starts == {i \in 1..(Len(t) + 1) : Boundary(t, i) /\ Ends(i) # {}}
    IN  IF starts = {} THEN NoMatch
        ELSE [found |-> TRUE, index |-> Min(starts), end |-> Max(Ends(Min(starts)))]

\* commandText.match(/^change wake word to (.+)/i); group 1, or <<>> if no match
ChangeWakePrefix == <<"change", SP, "wake", SP, "word", SP, "to", SP>>

changeWakeWordMatch(cmd) ==
    LET n == Len(ChangeWakePrefix)
    IN  IF /\ Len(cmd) > n
           /\ \A k \in 1..n : Lower(cmd[k]) = ChangeWakePrefix[k]
        THEN [found |-> TRUE, group |-> Substring(cmd, n + 1)]
        ELSE [found |-> FALSE, group |-> <<>>]

\* commandText.match(/^(?:set|turn) auto-stop (?:to|on)?\s*(\d+|off)\s*seconds?$/i)
AutoStopHead ==
    <<One({"set", "turn"}), One({SP}), One({"auto-stop"}), One({SP}),
      Opt({"to", "on"}), Star({SP})>>

AutoStopTail == <<Star({SP}), One({"second", "seconds"})>>

setAutoStopMatch(cmd) ==
    LET hits == {p \in 1..Len(cmd) :
                    /\ Lower(cmd[p]) \in Digits \cup {"off"}
                    /\ p \in MatchFrom(AutoStopHead, 1, cmd, 1)
                    /\ (Len(cmd) + 1) \in MatchFrom(AutoStopTail, 1, cmd, p + 1)}
    IN  IF hits = {} THEN [found |-> FALSE, group |-> ""]
        ELSE [found |-> TRUE, group |-> Lower(cmd[Min(hits)])]


(***************************************************************************)
(* Inputs.                                                                 *)
(***************************************************************************)
DefaultWakeWord == <<"Jura">>

\* Spoken settings commands, each after the default wake word
SetAutoStop15 ==
    <<"jura", SP, "set", SP, "auto-stop", SP, "to", SP, "15", SP, "seconds">>

TurnAutoStopOff ==
    <<"jura", SP, "turn", SP, "auto-stop", SP, "off">>

ChangeWakeWord ==
    <<"jura", SP, "change", SP, "wake", SP, "word", SP, "to", SP, "Assistant">>

\* Final transcripts delivered by the recognition service (already trimmed);
\* <<>> stands for a result event that carries interim text only.
Transcripts ==
    { <<>>,
      <<"hello">>,
      <<"jura">>,
      <<"jura", SP, "hello">>,
      SetAutoStop15,
      TurnAutoStopOff,
      ChangeWakeWord,
      <<"assistant", SP, "hello">> }

\* Wake phrases typed into the wake-word field (index.tsx 1680): one word,
\* two words, a phrase that ends in "!" and one that ends in "."
WakePhrases ==
    { <<"Jura">>, <<"hey", SP, "Jura">>, <<"jura", "!">>, <<"jura", ".">> }

\* Final transcripts for the wake-word matcher; adjacent word and
\* punctuation tokens have no whitespace between them ("heyjura", "jura!x").
WakeTranscripts ==
    { <<"hello">>,
      <<"Jura", SP, "hello">>,
      <<"hello", SP, "jura">>,
      <<"hey", SP, "jura", SP, "hello">>,
      <<"hey", "jura", SP, "hello">>,
      <<"jura", "!", SP, "hello">>,
      <<"jura", "!", "x">>,
      <<"jura", ".", SP, "hello">> }

\* the transcripts that carry no settings command
PlainTranscripts ==
    { <<>>, <<"hello">>, <<"jura">>, <<"jura", SP, "hello">> }

\* values of the auto-stop select offered to the model (index.tsx 1675)
AutoStopOptions == {0, 15}

ErrorCodes == {"no-speech", "network"}

(***************************************************************************)
(* State.                                                                  *)
(***************************************************************************)
VARIABLES
    \* React state (index.tsx 257-324)
    isNonStopMode, isNtspMode, isListening, isBotSpeaking, isMuted, isMicMuted,
    wakeWord, isAwaitingCommand, autoStopDuration, speechError,
    voiceCommandFeedback, isLoading, hasMessages, hasUserName, voicesLoaded,
    isConversationMode, inputValue, selectedCard, isModalSpeaking,
    \* refs (index.tsx 334-342)
    isNonStopModeRef, isListeningRef, userStoppedRef, wakeWordRef,
    isAwaitingCommandRef, isNtspModeRef, inactivityTimerRef, autoStopTimerRef,
    \* React state captured by the handlers the setup effect registered
    cap,
    \* platform: recognition session, timers, synthesis queue, AI requests
    recState, oldRecEnding, restartTimers, inactivityLive, feedbackTimers,
    synthQueue, cancelled, autoStopTimers, aiPending,
    \* history: speakText calls not yet completed, the reason the session was
    \* stopped, what the last handler did
    openCalls, stopReason, ev

reactVars ==
    <<isNonStopMode, isNtspMode, isListening, isBotSpeaking, isMuted, isMicMuted,
      wakeWord, isAwaitingCommand, autoStopDuration, speechError,
      voiceCommandFeedback, isLoading, hasMessages, hasUserName, voicesLoaded,
      isConversationMode, inputValue, selectedCard, isModalSpeaking>>

refVars ==
    <<isNonStopModeRef, isListeningRef, userStoppedRef, wakeWordRef,
      isAwaitingCommandRef, isNtspModeRef, inactivityTimerRef, autoStopTimerRef>>

platformVars ==
    <<recState, oldRecEnding, restartTimers, inactivityLive, feedbackTimers,
      synthQueue, cancelled, autoStopTimers, aiPending>>

vars == <<reactVars, refVars, cap, platformVars, openCalls, stopReason, ev>>

\* What the last handler did (reset by every handler).
BlankEv ==
    [name |-> "init", arg |-> <<>>, submit |-> FALSE,
     spoke |-> FALSE, handed |-> FALSE, closed |-> 0, cbs |-> 0, cbPre |-> FALSE,
     started |-> FALSE, threw |-> FALSE, stopped |-> FALSE,
     synthCancel |-> FALSE, chime |-> FALSE, request |-> FALSE,
     errorMsg |-> FALSE, fired |-> FALSE, timerTag |-> "none",
     cmd |-> <<>>]

\* The whole state as one record, so that a handler and the functions it
\* calls are operators from state to state.
Pack ==
    [isNonStopMode |-> isNonStopMode, isNtspMode |-> isNtspMode,
     isListening |-> isListening, isBotSpeaking |-> isBotSpeaking,
     isMuted |-> isMuted, isMicMuted |-> isMicMuted, wakeWord |-> wakeWord,
     isAwaitingCommand |-> isAwaitingCommand,
     autoStopDuration |-> autoStopDuration, speechError |-> speechError,
     voiceCommandFeedback |-> voiceCommandFeedback, isLoading |-> isLoading,
     hasMessages |-> hasMessages, hasUserName |-> hasUserName,
     voicesLoaded |-> voicesLoaded, isConversationMode |-> isConversationMode,
     inputValue |-> inputValue,
     selectedCard |-> selectedCard, isModalSpeaking |-> isModalSpeaking,
     isNonStopModeRef |-> isNonStopModeRef, isListeningRef |-> isListeningRef,
     userStoppedRef |-> userStoppedRef, wakeWordRef |-> wakeWordRef,
     isAwaitingCommandRef |-> isAwaitingCommandRef,
     isNtspModeRef |-> isNtspModeRef, inactivityTimerRef |-> inactivityTimerRef,
     autoStopTimerRef |-> autoStopTimerRef, cap |-> cap,
     recState |-> recState, oldRecEnding |-> oldRecEnding,
     restartTimers |-> restartTimers, inactivityLive |-> inactivityLive,
     feedbackTimers |-> feedbackTimers, synthQueue |-> synthQueue,
     cancelled |-> cancelled, autoStopTimers |-> autoStopTimers,
     aiPending |-> aiPending, openCalls |-> openCalls, stopReason |-> stopReason,
     ev |-> ev]

Unpack(n) ==
    /\ isNonStopMode' = n.isNonStopMode /\ isNtspMode' = n.isNtspMode
    /\ isListening' = n.isListening /\ isBotSpeaking' = n.isBotSpeaking
    /\ isMuted' = n.isMuted /\ isMicMuted' = n.isMicMuted
    /\ wakeWord' = n.wakeWord /\ isAwaitingCommand' = n.isAwaitingCommand
    /\ autoStopDuration' = n.autoStopDuration /\ speechError' = n.speechError
    /\ voiceCommandFeedback' = n.voiceCommandFeedback
    /\ isLoading' = n.isLoading /\ hasMessages' = n.hasMessages
    /\ hasUserName' = n.hasUserName /\ voicesLoaded' = n.voicesLoaded
    /\ isConversationMode' = n.isConversationMode /\ inputValue' = n.inputValue
    /\ selectedCard' = n.selectedCard /\ isModalSpeaking' = n.isModalSpeaking
    /\ isNonStopModeRef' = n.isNonStopModeRef
    /\ isListeningRef' = n.isListeningRef /\ userStoppedRef' = n.userStoppedRef
    /\ wakeWordRef' = n.wakeWordRef
    /\ isAwaitingCommandRef' = n.isAwaitingCommandRef
    /\ isNtspModeRef' = n.isNtspModeRef
    /\ inactivityTimerRef' = n.inactivityTimerRef
    /\ autoStopTimerRef' = n.autoStopTimerRef /\ cap' = n.cap
    /\ recState' = n.recState /\ oldRecEnding' = n.oldRecEnding
    /\ restartTimers' = n.restartTimers /\ inactivityLive' = n.inactivityLive
    /\ feedbackTimers' = n.feedbackTimers /\ synthQueue' = n.synthQueue
    /\ cancelled' = n.cancelled /\ autoStopTimers' = n.autoStopTimers
    /\ aiPending' = n.aiPending /\ openCalls' = n.openCalls
    /\ stopReason' = n.stopReason /\ ev' = n.ev

\* The React state a function created by a render reads through its closure.
Snapshot(c) ==
    [isMuted |-> c.isMuted, voicesLoaded |-> c.voicesLoaded,
     autoStopDuration |-> c.autoStopDuration, isLoading |-> c.isLoading,
     hasUserName |-> c.hasUserName, aiReady |-> c.aiReady,
     isBotSpeaking |-> c.isBotSpeaking,
     isConversationMode |-> c.isConversationMode]

\* What of a snapshot the code that runs after an await or in an utterance
\* callback still reads: speakText reads isMuted, voices and
\* autoStopDuration, continueMonologue reads ai, and the finally block of
\* submitMessage reads isBotSpeaking (keepBot).
Later(snap, keepBot) ==
    [isMuted |-> snap.isMuted, voicesLoaded |-> snap.voicesLoaded,
     autoStopDuration |-> snap.autoStopDuration, aiReady |-> snap.aiReady,
     isBotSpeaking |-> keepBot /\ snap.isBotSpeaking]

NoSnap ==
    [isMuted |-> FALSE, voicesLoaded |-> FALSE, autoStopDuration |-> 0,
     aiReady |-> FALSE, isBotSpeaking |-> FALSE]

\* The closure of the current render: the ai client exists in every render
\* after the first one (setAi, index.tsx 441-442).
Closure(s) ==
    [isMuted |-> s.isMuted, voicesLoaded |-> s.voicesLoaded,
     autoStopDuration |-> s.autoStopDuration, isLoading |-> s.isLoading,
     hasUserName |-> s.hasUserName, aiReady |-> TRUE,
     isBotSpeaking |-> s.isBotSpeaking,
     isConversationMode |-> s.isConversationMode,
     isNonStopMode |-> s.isNonStopMode, isNtspMode |-> s.isNtspMode,
     isListening |-> s.isListening, hasMessages |-> s.hasMessages,
     inputValue |-> s.inputValue, isMicMuted |-> s.isMicMuted,
     isModalSpeaking |-> s.isModalSpeaking]


(***************************************************************************)
(* Platform calls.                                                         *)
(***************************************************************************)
\* The stops the user or a recognition error caused: mic button, NonStop
\* toggled off, typing in the chat input, inactivity timeout, error event.
UserStops == {"mic", "toggle", "typing", "inactivity", "error"}

\* the history keeps only whether a stop was one of UserStops
StopKind(why) == IF why \in UserStops THEN "user" ELSE "other"

\* recognitionRef.current.start(): throws InvalidStateError unless the
\* recognition object is idle.
RecStart(s) ==
    IF s.recState = "idle"
    THEN [s EXCEPT !.recState = "starting", !.stopReason = "none", !.ev.started = TRUE]
    ELSE [s EXCEPT !.ev.threw = TRUE]

\* recognitionRef.current.stop(): the session ends, its end event follows.
\* why names the caller for the session's history.
RecStop(s, why) ==
    IF s.recState \in {"starting", "running"}
    THEN [s EXCEPT !.recState = "stopping", !.stopReason = StopKind(why),
                   !.ev.stopped = TRUE]
    ELSE s

\* window.speechSynthesis.cancel(): every queued or playing utterance is
\* removed and receives an error event (interrupted / canceled).
SynthCancel(s, preempt) ==
    [s EXCEPT !.cancelled = @ \cup {[s.synthQueue[k] EXCEPT !.pre = preempt] :
                                        k \in 1..Len(s.synthQueue)},
              !.synthQueue = <<>>,
              !.ev.synthCancel = TRUE]

(***************************************************************************)
(* Functions of the component.                                             *)
(***************************************************************************)
clearInactivityTimer(s) ==
    IF s.inactivityTimerRef
    THEN [s EXCEPT !.inactivityLive = FALSE, !.inactivityTimerRef = FALSE]
    ELSE s

startInactivityTimer(s) ==
    LET s1 == clearInactivityTimer(s)
    IN  IF s1.isNonStopModeRef
        THEN [s1 EXCEPT !.inactivityTimerRef = TRUE, !.inactivityLive = TRUE]
        ELSE s1

\* Faulty variant: the timeout stops the session and shows the notice but
\* neither leaves NonStop mode nor marks the stop as the user's.
handleInactivityTimeoutStopOnly(s) ==
    IF s.isNonStopModeRef
    THEN [RecStop(s, "inactivity")
            EXCEPT !.speechError = "inactivity", !.ev.fired = TRUE]
    ELSE s

handleInactivityTimeout(s) ==
    IF s.isNonStopModeRef
    THEN [RecStop([s EXCEPT !.isNonStopMode = FALSE, !.userStoppedRef = TRUE],
                  "inactivity")
            EXCEPT !.speechError = "inactivity", !.ev.fired = TRUE]
    ELSE s

continueMonologue(s, snap) ==
    IF ~s.isNtspModeRef \/ ~snap.aiReady
    THEN IF s.isNtspModeRef THEN [s EXCEPT !.isNtspMode = FALSE] ELSE s
    ELSE [s EXCEPT !.isLoading = TRUE,
                   !.aiPending = @ \cup {[kind |-> "mono", snap |-> Later(snap, FALSE),
                                          isNtspStart |-> FALSE]},
                   !.ev.request = TRUE]

\* The onEndCallback of a speakText call: none, the callback submitMessage
\* passes (index.tsx 1000-1007) or continueMonologue.
InvokeCallback(s, u) ==
    LET s1 == [s EXCEPT !.ev.cbs = @ + 1,
                        !.ev.cbPre = @ \/ (u.pre /\ u.cb # "none")]
    IN  CASE u.cb = "none" -> s1
          [] u.cb = "chat" ->
                IF s1.isNonStopModeRef
                THEN RecStart([s1 EXCEPT !.userStoppedRef = FALSE])
                ELSE s1
          [] OTHER -> continueMonologue(s1, u.snap)

\* Faulty variant: the end/error handler releases the auto-stop timer and
\* the speaking flag but does not invoke the completion callback.
cleanupSpeechNoCallback(s, u) ==
    [s EXCEPT !.autoStopTimers = @ \ {s.autoStopTimerRef},
              !.autoStopTimerRef = 0,
              !.isBotSpeaking = FALSE,
              !.openCalls = @ - 1, !.ev.closed = @ + 1]

cleanupSpeech(s, u) ==
    LET s1 == [s EXCEPT !.autoStopTimers = @ \ {s.autoStopTimerRef},
                        !.autoStopTimerRef = 0,
                        !.isBotSpeaking = FALSE,
                        !.openCalls = @ - 1, !.ev.closed = @ + 1]
    IN  InvokeCallback(s1, u)

\* The identity of a new SpeechSynthesisUtterance object: the least number
\* no live utterance or auto-stop timer carries.
FreshId(s) ==
    LET used == {s.synthQueue[k].id : k \in 1..Len(s.synthQueue)}
                  \cup {u.id : u \in s.cancelled}
                  \cup s.autoStopTimers \cup {s.autoStopTimerRef}
    IN  Min({i \in 1..(Cardinality(used) + 1) : i \notin used})

\* speakText as created by the render whose state is snap; textEmpty says
\* that the cleaned text is the empty string.
speakText(s, snap, textEmpty, cb) ==
    LET s0 == [s EXCEPT !.ev.spoke = TRUE]
        \* the utterance keeps what its handlers read: the auto-stop
        \* duration and, for continueMonologue, the closure
        kept == IF cb \in {"ntspStart", "mono"} THEN Later(snap, FALSE) ELSE NoSnap
        skip(x) == InvokeCallback([x EXCEPT !.ev.closed = @ + 1],
                                  [id |-> 0, cb |-> cb, snap |-> kept,
                                   autoStop |-> snap.autoStopDuration,
                                   started |-> FALSE, pre |-> FALSE])
    IN  IF snap.isMuted THEN skip(s0)
        ELSE LET s1 == SynthCancel(s0, TRUE)
                 u == [id |-> FreshId(s1), cb |-> cb, snap |-> kept,
                       autoStop |-> snap.autoStopDuration,
                       started |-> FALSE, pre |-> FALSE]
             IN  IF ~textEmpty /\ snap.voicesLoaded
                 THEN [s1 EXCEPT !.synthQueue = Append(@, u),
                                 !.openCalls = @ + 1, !.ev.handed = TRUE]
                 ELSE skip(s1)

\* submitMessage as created by the render whose state is snap.  text is the
\* trimmed message; uploads, 'help' and the to-do commands are not part of
\* it here.
submitMessage(s, snap, text, isNtspStart) ==
    LET s1 == [clearInactivityTimer(s) EXCEPT !.ev.submit = TRUE]
    IN  IF text = <<>> \/ snap.isLoading THEN s1
        ELSE IF ~snap.hasUserName /\ ~snap.isConversationMode
        THEN speakText([s1 EXCEPT !.hasUserName = TRUE, !.inputValue = FALSE,
                                  !.hasMessages = TRUE],
                       snap, FALSE, "none")
        ELSE IF ~snap.aiReady THEN [s1 EXCEPT !.inputValue = FALSE]
        ELSE [s1 EXCEPT !.inputValue = FALSE, !.hasMessages = TRUE,
                        !.isLoading = TRUE,
                        !.aiPending = @ \cup {[kind |-> "chat",
                                               snap |-> Later(snap, TRUE),
                                               isNtspStart |-> isNtspStart]},
                        !.ev.request = TRUE]

StartPrompt == <<"start", SP, "a", SP, "monologue">>

\* Faulty variant: entering Monologue mode leaves NonStop mode but keeps the
\* session, its inactivity timer and the auto-restart.
toggleNtspModeKeepsSession(s, c) ==
    LET willBeActive == ~c.isNtspMode
        s1 == IF willBeActive /\ c.isNonStopMode
              THEN [s EXCEPT !.isNonStopMode = FALSE]
              ELSE s
        s3 == IF willBeActive THEN [s1 EXCEPT !.isAwaitingCommand = FALSE] ELSE s1
        s4 == [s3 EXCEPT !.isNtspMode = willBeActive]
    IN  IF willBeActive
        THEN IF ~c.hasMessages
             THEN submitMessage(s4, Snapshot(c), StartPrompt, TRUE)
             ELSE continueMonologue(s4, Snapshot(c))
        ELSE [SynthCancel(s4, FALSE) EXCEPT !.isBotSpeaking = FALSE,
                                            !.isLoading = FALSE]

\* c is the closure of the render that created the function
toggleNtspMode(s, c) ==
    LET willBeActive == ~c.isNtspMode
        s1 == IF willBeActive /\ c.isNonStopMode
              THEN RecStop([clearInactivityTimer(s) EXCEPT !.isNonStopMode = FALSE,
                                                           !.userStoppedRef = TRUE],
                           "ntsp")
              ELSE s
        s2 == IF willBeActive /\ c.isListening THEN RecStop(s1, "ntsp") ELSE s1
        s3 == IF willBeActive THEN [s2 EXCEPT !.isAwaitingCommand = FALSE] ELSE s2
        s4 == [s3 EXCEPT !.isNtspMode = willBeActive]
    IN  IF willBeActive
        THEN IF ~c.hasMessages
             THEN submitMessage(s4, Snapshot(c), StartPrompt, TRUE)
             ELSE continueMonologue(s4, Snapshot(c))
        ELSE [SynthCancel(s4, FALSE) EXCEPT !.isBotSpeaking = FALSE,
                                            !.isLoading = FALSE]

\* Faulty variant: NonStop mode is switched on without leaving Monologue
\* mode first.
toggleNonStopModeKeepsMonologue(s, c) ==
    LET s2 == [s EXCEPT !.speechError = "none", !.isAwaitingCommand = FALSE]
    IN  IF ~c.isNonStopMode
        THEN RecStart([s2 EXCEPT !.isNonStopMode = TRUE, !.userStoppedRef = FALSE,
                                 !.stopReason = IF @ = "user" THEN "userThenOn" ELSE @])
        ELSE [SynthCancel(RecStop([clearInactivityTimer(s2)
                                      EXCEPT !.isNonStopMode = FALSE,
                                             !.userStoppedRef = TRUE],
                                  "toggle"),
                          FALSE)
                EXCEPT !.isBotSpeaking = FALSE]

toggleNonStopMode(s, c) ==
    LET s1 == IF c.isNtspMode THEN toggleNtspMode(s, c) ELSE s
        s2 == [s1 EXCEPT !.speechError = "none", !.isAwaitingCommand = FALSE]
    IN  IF ~c.isNonStopMode
        THEN RecStart([s2 EXCEPT !.isNonStopMode = TRUE, !.userStoppedRef = FALSE,
                                 \* history: NonStop switched on again while a
                                 \* session the user stopped is still ending
                                 !.stopReason = IF @ = "user" THEN "userThenOn" ELSE @])
        ELSE [SynthCancel(RecStop([clearInactivityTimer(s2)
                                      EXCEPT !.isNonStopMode = FALSE,
                                             !.userStoppedRef = TRUE],
                                  "toggle"),
                          FALSE)
                EXCEPT !.isBotSpeaking = FALSE]

\* Faulty variant: the click that interrupts the playback goes on to start
\* or stop the session.
handleVoiceButtonClickCancelAndToggle(s, c) ==
    IF c.isNtspMode THEN toggleNtspMode(s, c)
    ELSE IF c.isMicMuted THEN s
    ELSE LET s0 == IF c.isBotSpeaking THEN SynthCancel(s, FALSE) ELSE s
         IN  IF s0.isListeningRef
             THEN LET s1 == RecStop([clearInactivityTimer(s0) EXCEPT !.userStoppedRef = TRUE],
                                    "mic")
                      s2 == IF c.inputValue
                            THEN [submitMessage(s1, Snapshot(c), <<"typed">>, FALSE)
                                     EXCEPT !.inputValue = FALSE]
                            ELSE s1
                  IN  IF c.isNonStopMode THEN [s2 EXCEPT !.isNonStopMode = FALSE] ELSE s2
             ELSE RecStart([s0 EXCEPT !.speechError = "none", !.userStoppedRef = FALSE])

handleVoiceButtonClick(s, c) ==
    IF c.isNtspMode THEN toggleNtspMode(s, c)
    ELSE IF c.isMicMuted THEN s
    ELSE IF c.isBotSpeaking THEN SynthCancel(s, FALSE)
    ELSE IF s.isListeningRef
    THEN LET s1 == RecStop([clearInactivityTimer(s) EXCEPT !.userStoppedRef = TRUE],
                           "mic")
             s2 == IF c.inputValue
                   THEN [submitMessage(s1, Snapshot(c), <<"typed">>, FALSE)
                            EXCEPT !.inputValue = FALSE]
                   ELSE s1
         IN  IF c.isNonStopMode THEN [s2 EXCEPT !.isNonStopMode = FALSE] ELSE s2
    ELSE RecStart([s EXCEPT !.speechError = "none", !.userStoppedRef = FALSE])


(***************************************************************************)
(* Render: the re-render React performs after a handler, with its effects. *)
(***************************************************************************)
\* The setup effect (index.tsx 439-605) runs again when isConversationMode
\* changed: its cleanup stops the old recognition object, then a new object
\* gets handlers that close over the state of this render.
SetupEffect(s) ==
    LET s1 == clearInactivityTimer(RecStop([s EXCEPT !.userStoppedRef = TRUE], "cleanup"))
    IN  [s1 EXCEPT !.oldRecEnding = @ \/ (s1.recState # "idle"),
                   !.recState = "idle", !.stopReason = "none",
                   !.cap = Snapshot(Closure(s))]

Render(s) ==
    LET s1 == [s EXCEPT !.isListeningRef = s.isListening,
                        !.isNonStopModeRef = s.isNonStopMode,
                        !.isAwaitingCommandRef = s.isAwaitingCommand,
                        !.wakeWordRef = s.wakeWord,
                        !.isNtspModeRef = s.isNtspMode,
                        \* greeting effect, index.tsx 428-437
                        !.hasMessages = @ \/ (~s.hasUserName /\ ~s.isConversationMode)]
    IN  IF s1.isConversationMode # s1.cap.isConversationMode
        THEN SetupEffect(s1)
        ELSE s1

Step(name, arg) == [Pack EXCEPT !.ev = [BlankEv EXCEPT !.name = name, !.arg = arg]]

Commit(n) ==
    /\ Cardinality(n.cancelled) <= MaxCancelled
    /\ Cardinality(n.aiPending) <= MaxPending
    /\ Len(n.restartTimers) <= MaxTimers
    /\ n.feedbackTimers <= MaxFeedback
    /\ Unpack(Render(n))

(***************************************************************************)
(* Recognition handlers (registered by the setup effect: they call the     *)
(* speakText and submitMessage of the captured render, cap).               *)
(***************************************************************************)

recognitionOnStart(s) ==
    startInactivityTimer([s EXCEPT !.userStoppedRef = FALSE, !.isListening = TRUE])

\* why: the stopReason of the session that ended
recognitionOnEnd(s, why) ==
    LET s1 == [s EXCEPT !.isListening = FALSE]
    IN  IF s1.isNonStopModeRef /\ ~s1.userStoppedRef
        THEN [s1 EXCEPT !.restartTimers = Append(@, why)]
        ELSE s1

\* Faulty variant: the timeout restarts the session without looking at the
\* mode, the stop flag or the listening flag.
restartTimeoutUnconditional(s) == RecStart(s)

\* the callback of the 100 ms timeout set by recognition.onend
restartTimeout(s) ==
    IF s.isNonStopModeRef /\ ~s.userStoppedRef /\ ~s.isListeningRef
    THEN RecStart(s)
    ELSE s

voiceCommandFeedbackStep(s) ==
    [speakText([s EXCEPT !.voiceCommandFeedback = TRUE], s.cap, FALSE, "none")
        EXCEPT !.feedbackTimers = @ + 1]

recognitionOnResult(s, finalTranscript) ==
    LET s1 == clearInactivityTimer(s)
    IN  IF s1.isNonStopModeRef
        THEN IF s1.isAwaitingCommandRef
             THEN LET s2 == [s1 EXCEPT !.inputValue = TRUE]
                  IN  IF finalTranscript # <<>>
                      THEN [submitMessage(RecStop([s2 EXCEPT !.userStoppedRef = TRUE],
                                                  "submit"),
                                          s.cap, finalTranscript, FALSE)
                               EXCEPT !.inputValue = FALSE,
                                      !.isAwaitingCommand = FALSE]
                      ELSE s2
             ELSE LET match == wakeWordRegex(finalTranscript, s1.wakeWordRef)
                      commandText == Trim(Substring(finalTranscript, match.end))
                      cw == changeWakeWordMatch(commandText)
                      as == setAutoStopMatch(commandText)
                      s2 == [s1 EXCEPT !.ev.chime = TRUE, !.ev.cmd = commandText]
                  IN  IF ~match.found THEN s1
                      ELSE IF cw.found
                      THEN voiceCommandFeedbackStep(
                               [s2 EXCEPT !.wakeWord = Trim(cw.group)])
                      ELSE IF as.found
                      THEN voiceCommandFeedbackStep(
                               [s2 EXCEPT !.autoStopDuration =
                                   IF as.group = "off" THEN 0 ELSE parseInt(as.group)])
                      ELSE IF commandText # <<>>
                      THEN submitMessage(RecStop([s2 EXCEPT !.userStoppedRef = TRUE],
                                                 "submit"),
                                         s.cap, commandText, FALSE)
                      ELSE [s2 EXCEPT !.isAwaitingCommand = TRUE]
        ELSE LET s2 == [s1 EXCEPT !.inputValue = TRUE]
             IN  IF finalTranscript # <<>>
                 THEN [submitMessage(RecStop([s2 EXCEPT !.userStoppedRef = TRUE],
                                             "submit"),
                                     s.cap, finalTranscript, FALSE)
                          EXCEPT !.inputValue = FALSE]
                 ELSE s2

\* Faulty variant: 'no-speech' is ignored whatever the mode.
recognitionOnErrorIgnoresNoSpeech(s, code) ==
    IF code = "no-speech" THEN s
    ELSE LET s1 == [s EXCEPT !.speechError = code, !.userStoppedRef = TRUE,
                             !.isAwaitingCommand = FALSE]
             s2 == IF s1.isListeningRef THEN RecStop(s1, "error") ELSE s1
         IN  IF s2.isNonStopModeRef THEN [s2 EXCEPT !.isNonStopMode = FALSE] ELSE s2

recognitionOnError(s, code) ==
    IF code = "no-speech" /\ s.isNonStopModeRef THEN s
    ELSE LET s1 == [s EXCEPT !.speechError = code, !.userStoppedRef = TRUE,
                             !.isAwaitingCommand = FALSE]
             s2 == IF s1.isListeningRef THEN RecStop(s1, "error") ELSE s1
         IN  IF s2.isNonStopModeRef THEN [s2 EXCEPT !.isNonStopMode = FALSE] ELSE s2

\* The recognition service ends the session after it reported an error: the
\* end event follows the error event.
SessionEndsAfterError(s, handled) ==
    [s EXCEPT !.recState = "stopping",
              !.stopReason = IF handled /\ s.recState # "stopping" THEN "user" ELSE @]


(***************************************************************************)
(* Remaining handlers.                                                     *)
(***************************************************************************)
\* onChange of the chat input (index.tsx 1699-1709); nonBlank is whether the
\* new value has non-whitespace text.
chatInputOnChange(s, c, nonBlank) ==
    LET s1 == [s EXCEPT !.inputValue = nonBlank, !.speechError = "none"]
        s2 == IF c.isNtspMode THEN toggleNtspMode(s1, c) ELSE s1
    IN  IF c.isNonStopMode
        THEN RecStop([s2 EXCEPT !.isNonStopMode = FALSE, !.isAwaitingCommand = FALSE,
                                !.userStoppedRef = TRUE],
                     "typing")
        ELSE s2

handleFormSubmit(s, c) ==
    submitMessage(s, Snapshot(c), IF c.inputValue THEN <<"typed">> ELSE <<>>, FALSE)

replaySpeech(s, c) ==
    speakText(IF c.isBotSpeaking THEN SynthCancel(s, TRUE) ELSE s,
              Snapshot(c), FALSE, "none")

\* history is whether the stored history of the mode switched to is non-empty
toggleConversationMode(s, c, history) ==
    LET s1 == IF c.isNtspMode THEN toggleNtspMode(s, c) ELSE s
        s2 == IF c.isNonStopMode THEN [s1 EXCEPT !.isNonStopMode = FALSE] ELSE s1
    IN  [s2 EXCEPT !.isAwaitingCommand = FALSE,
                   !.isConversationMode = ~c.isConversationMode,
                   !.hasMessages = history]

handleClearHistory(s) == [s EXCEPT !.hasMessages = FALSE]

handleNewChat(s, c) ==
    LET s1 == [s EXCEPT !.isNtspMode = FALSE, !.hasUserName = FALSE,
                        !.hasMessages = FALSE, !.isConversationMode = FALSE,
                        !.isNonStopMode = FALSE, !.isAwaitingCommand = FALSE]
    IN  [SynthCancel(s1, FALSE) EXCEPT !.isBotSpeaking = FALSE,
                                       !.isModalSpeaking = FALSE]

\* Opening the Image Studio: leaves the modes and empties the transcript.
handleOpenImageStudio(s, c) ==
    LET s1 == IF c.isNtspMode THEN toggleNtspMode(s, c) ELSE s
        s2 == IF c.isNonStopMode THEN [s1 EXCEPT !.isNonStopMode = FALSE] ELSE s1
    IN  [s2 EXCEPT !.isAwaitingCommand = FALSE, !.isConversationMode = FALSE,
                   !.hasMessages = FALSE]

\* Opening the Article Writer: the same statements on the voice state.
handleOpenArticleWriter(s, c) ==
    LET s1 == IF c.isNtspMode THEN toggleNtspMode(s, c) ELSE s
        s2 == IF c.isNonStopMode THEN [s1 EXCEPT !.isNonStopMode = FALSE] ELSE s1
    IN  [s2 EXCEPT !.isAwaitingCommand = FALSE, !.isConversationMode = FALSE,
                   !.hasMessages = FALSE]

\* The learning-card modal: a click on a card opens it with the card's
\* description as its content (the language is left at en-US).
handleCardClick(s) == [s EXCEPT !.selectedCard = TRUE]

handleCloseModal(s) ==
    [SynthCancel(s, FALSE) EXCEPT !.isModalSpeaking = FALSE, !.selectedCard = FALSE]

\* The Listen / Stop button of the modal.  Its utterance has an onend
\* handler only (cb "listen").
handleListen(s, c) ==
    IF c.isModalSpeaking
    THEN [SynthCancel(s, FALSE) EXCEPT !.isModalSpeaking = FALSE]
    ELSE IF c.voicesLoaded
    THEN [s EXCEPT !.synthQueue = Append(@, [id |-> FreshId(s), cb |-> "listen",
                                             snap |-> NoSnap, autoStop |-> 0,
                                             started |-> FALSE, pre |-> FALSE]),
                   !.isModalSpeaking = TRUE, !.ev.handed = TRUE]
    ELSE s

utteranceOnStart(s, u) ==
    LET s1 == [s EXCEPT !.isBotSpeaking = TRUE]
    IN  IF u.autoStop > 0
        THEN [s1 EXCEPT !.autoStopTimers = @ \cup {u.id}, !.autoStopTimerRef = u.id]
        ELSE s1

\* continuation of submitMessage after the awaited request (index.tsx 993-1018)
submitMessageReply(s, req, ok, textEmpty) ==
    LET s1 == IF ok
              THEN speakText(s, req.snap, textEmpty,
                             IF req.isNtspStart THEN "ntspStart" ELSE "chat")
              ELSE s
        s2 == IF ~ok \/ s1.ev.threw
              THEN [s1 EXCEPT !.isLoading = FALSE, !.ev.errorMsg = TRUE]
              ELSE s1
    IN  IF ~req.snap.isBotSpeaking THEN [s2 EXCEPT !.isLoading = FALSE] ELSE s2

\* continuation of continueMonologue after the awaited request (681-694)
continueMonologueReply(s, req, ok, textEmpty) ==
    IF ok
    THEN speakText([s EXCEPT !.hasMessages = TRUE], req.snap, textEmpty, "mono")
    ELSE [s EXCEPT !.isNtspMode = FALSE, !.isLoading = FALSE, !.ev.errorMsg = TRUE]

(***************************************************************************)
(* Actions: user input.                                                    *)
(***************************************************************************)
ToggleNonStopMode ==
    /\ Commit(toggleNonStopMode(Step("toggleNonStopMode", <<>>), Closure(Pack)))

ToggleNtspMode ==
    /\ Commit(toggleNtspMode(Step("toggleNtspMode", <<>>), Closure(Pack)))

HandleVoiceButtonClick ==
    /\ Commit(handleVoiceButtonClick(Step("handleVoiceButtonClick", <<>>), Closure(Pack)))

ChatInputOnChange ==
    /\ ~isLoading /\ ~isNtspMode
    /\ \E nonBlank \in BOOLEAN :
          Commit(chatInputOnChange(Step("chatInputOnChange", <<>>), Closure(Pack), nonBlank))

HandleFormSubmit ==
    /\ Commit(handleFormSubmit(Step("handleFormSubmit", <<>>), Closure(Pack)))

ReplaySpeech ==
    /\ hasMessages
    /\ Commit(replaySpeech(Step("replaySpeech", <<>>), Closure(Pack)))

ToggleMute ==
    /\ Commit([Step("toggleMute", <<>>) EXCEPT !.isMuted = ~isMuted])

ToggleMicMute ==
    /\ Commit([Step("toggleMicMute", <<>>) EXCEPT !.isMicMuted = ~isMicMuted])

ToggleConversationMode ==
    /\ \E history \in BOOLEAN :
          Commit(toggleConversationMode(Step("toggleConversationMode", <<>>),
                                        Closure(Pack), history))

\* onChange of the wake-word field: any text, the empty string included
WakeWordInputOnChange ==
    /\ \E w \in WakePhrases \cup {<<>>} :
          /\ w # wakeWord
          /\ Commit([Step("wakeWordInput", w) EXCEPT !.wakeWord = w])

AutoStopSelectOnChange ==
    /\ \E d \in AutoStopOptions \ {autoStopDuration} :
          Commit([Step("autoStopSelect", <<d>>) EXCEPT !.autoStopDuration = d])

HandleClearHistory ==
    /\ hasMessages
    /\ Commit(handleClearHistory(Step("handleClearHistory", <<>>)))

HandleNewChat ==
    /\ Commit(handleNewChat(Step("handleNewChat", <<>>), Closure(Pack)))

HandleOpenImageStudio ==
    /\ Commit(handleOpenImageStudio(Step("handleOpenImageStudio", <<>>), Closure(Pack)))

HandleOpenArticleWriter ==
    /\ Commit(handleOpenArticleWriter(Step("handleOpenArticleWriter", <<>>),
                                      Closure(Pack)))

HandleCardClick ==
    /\ ~selectedCard
    /\ Commit(handleCardClick(Step("handleCardClick", <<>>)))

HandleCloseModal ==
    /\ selectedCard
    /\ Commit(handleCloseModal(Step("handleCloseModal", <<>>)))

HandleListen ==
    /\ selectedCard
    /\ Commit(handleListen(Step("handleListen", <<>>), Closure(Pack)))

(***************************************************************************)
(* Actions: platform events, timers and AI replies.                        *)
(***************************************************************************)
VoicesChanged ==
    /\ ~voicesLoaded
    /\ Commit([Step("voicesChanged", <<>>) EXCEPT !.voicesLoaded = TRUE])

RecOnStart ==
    /\ recState = "starting"
    /\ Commit(recognitionOnStart([Step("onstart", <<>>) EXCEPT !.recState = "running"]))

RecOnResult ==
    /\ recState = "running"
    /\ \E t \in Transcripts : Commit(recognitionOnResult(Step("onresult", t), t))

RecOnResultWake ==
    /\ recState = "running"
    /\ \E t \in WakeTranscripts : Commit(recognitionOnResult(Step("onresult", t), t))

RecOnResultPlain ==
    /\ recState = "running"
    /\ \E t \in PlainTranscripts : Commit(recognitionOnResult(Step("onresult", t), t))

RecOnError ==
    /\ recState \in {"starting", "running"}
    /\ \E code \in ErrorCodes :
          Commit(SessionEndsAfterError(
                    recognitionOnError(Step("onerror", <<code>>), code),
                    ~(code = "no-speech" /\ isNonStopModeRef)))

RecOnEnd ==
    /\ recState = "stopping"
    /\ Commit(recognitionOnEnd([Step("onend", <<stopReason>>) EXCEPT !.recState = "idle",
                                                         !.stopReason = "none"],
                                stopReason))

\* the end event of a recognition object replaced by the setup effect
OldRecOnEnd ==
    /\ oldRecEnding
    /\ Commit(recognitionOnEnd([Step("onendOld", <<>>) EXCEPT !.oldRecEnding = FALSE],
                                "other"))

RestartTimeout ==
    \E k \in 1..Len(restartTimers) :
        Commit(restartTimeout(
                  [Step("restartTimeout", <<>>)
                      EXCEPT !.restartTimers = SubSeq(@, 1, k - 1) \o SubSeq(@, k + 1, Len(@)),
                             !.ev.timerTag = restartTimers[k]]))

InactivityTimeout ==
    /\ inactivityLive
    /\ Commit(handleInactivityTimeout(
                 [Step("inactivityTimeout", <<>>) EXCEPT !.inactivityLive = FALSE]))

FeedbackTimeout ==
    /\ feedbackTimers > 0
    /\ Commit([Step("feedbackTimeout", <<>>) EXCEPT !.feedbackTimers = @ - 1,
                                                   !.voiceCommandFeedback = FALSE])

\* The handlers an utterance carries: the ones speakText sets, or for the
\* utterance of the modal onend alone.
UtteranceStarts(s, u) == IF u.cb = "listen" THEN s ELSE utteranceOnStart(s, u)

UtteranceEnds(s, u) ==
    IF u.cb = "listen" THEN [s EXCEPT !.isModalSpeaking = FALSE] ELSE cleanupSpeech(s, u)

UtteranceFails(s, u) == IF u.cb = "listen" THEN s ELSE cleanupSpeech(s, u)

UttOnStart ==
    /\ synthQueue # <<>> /\ ~Head(synthQueue).started /\ cancelled = {}
    /\ Commit(UtteranceStarts(
                 [Step("utteranceOnStart", <<>>) EXCEPT !.synthQueue[1].started = TRUE],
                 Head(synthQueue)))

UttOnEnd ==
    /\ synthQueue # <<>> /\ Head(synthQueue).started
    /\ Commit(UtteranceEnds(
                 [Step("utteranceOnEnd", <<>>) EXCEPT !.synthQueue = Tail(@)],
                 Head(synthQueue)))

UttOnError ==
    /\ synthQueue # <<>> /\ cancelled = {}
    /\ Commit(UtteranceFails(
                 [Step("utteranceOnError", <<>>) EXCEPT !.synthQueue = Tail(@)],
                 Head(synthQueue)))

\* the error event of an utterance removed by speechSynthesis.cancel()
UttOnCancelled ==
    \E u \in cancelled :
        Commit(UtteranceFails(
                  [Step("utteranceOnCancelled", <<>>) EXCEPT !.cancelled = @ \ {u}], u))

AutoStopTimeout ==
    \E id \in autoStopTimers :
        Commit(SynthCancel(
                  [Step("autoStopTimeout", <<>>) EXCEPT !.autoStopTimers = @ \ {id}],
                  FALSE))

AiReply ==
    \E req \in aiPending, ok \in BOOLEAN, textEmpty \in BOOLEAN :
        LET s == [Step("aiReply", <<req.kind>>) EXCEPT !.aiPending = @ \ {req}]
        IN  Commit(IF req.kind = "chat"
                   THEN submitMessageReply(s, req, ok, textEmpty)
                   ELSE continueMonologueReply(s, req, ok, textEmpty))

(***************************************************************************)
(* Specification.                                                          *)
(***************************************************************************)
\* The state after the first render and its effects: the handlers of the
\* setup effect closed over the first render, in which the ai client and
\* the voices are not yet there.  The settings kept in localStorage are at
\* their defaults (first visit); the user name comes from sessionStorage
\* (index.tsx 325); a user without a name is shown the greeting, a user
\* with a name starts with an empty transcript.
Init ==
    /\ isNonStopMode = FALSE /\ isNtspMode = FALSE /\ isListening = FALSE
    /\ isBotSpeaking = FALSE /\ isMuted = FALSE /\ isMicMuted = FALSE
    /\ wakeWord = DefaultWakeWord /\ isAwaitingCommand = FALSE
    /\ autoStopDuration = 0 /\ speechError = "none"
    /\ voiceCommandFeedback = FALSE /\ isLoading = FALSE
    /\ hasUserName \in BOOLEAN /\ hasMessages = ~hasUserName
    /\ voicesLoaded = FALSE
    /\ isConversationMode = FALSE /\ inputValue = FALSE
    /\ selectedCard = FALSE /\ isModalSpeaking = FALSE
    /\ isNonStopModeRef = FALSE /\ isListeningRef = FALSE
    /\ userStoppedRef = FALSE /\ wakeWordRef = DefaultWakeWord
    /\ isAwaitingCommandRef = FALSE /\ isNtspModeRef = FALSE
    /\ inactivityTimerRef = FALSE /\ autoStopTimerRef = 0
    /\ cap = [isMuted |-> isMuted, voicesLoaded |-> FALSE, autoStopDuration |-> 0,
              isLoading |-> FALSE, hasUserName |-> hasUserName, aiReady |-> FALSE,
              isBotSpeaking |-> FALSE, isConversationMode |-> FALSE]
    /\ recState = "idle" /\ oldRecEnding = FALSE /\ restartTimers = <<>>
    /\ inactivityLive = FALSE /\ feedbackTimers = 0
    /\ synthQueue = <<>> /\ cancelled = {} /\ autoStopTimers = {}
    /\ aiPending = {}
    /\ openCalls = 0 /\ stopReason = "none" /\ ev = BlankEv

Next ==
    \/ ToggleNonStopMode
    \/ ToggleNtspMode
    \/ HandleVoiceButtonClick
    \/ ChatInputOnChange
    \/ HandleFormSubmit
    \/ ReplaySpeech
    \/ ToggleMute
    \/ ToggleMicMute
    \/ ToggleConversationMode
    \/ HandleNewChat
    \/ HandleOpenImageStudio
    \/ HandleOpenArticleWriter
    \/ HandleCardClick
    \/ HandleCloseModal
    \/ HandleListen
    \/ HandleClearHistory
    \/ AutoStopSelectOnChange
    \/ WakeWordInputOnChange
    \/ VoicesChanged
    \/ RecOnStart
    \/ RecOnResult
    \/ RecOnResultWake
    \/ RecOnError
    \/ RecOnEnd
    \/ OldRecOnEnd
    \/ RestartTimeout
    \/ InactivityTimeout
    \/ FeedbackTimeout
    \/ UttOnStart
    \/ UttOnEnd
    \/ UttOnError
    \/ UttOnCancelled
    \/ AutoStopTimeout
    \/ AiReply

Spec == Init /\ [][Next]_vars

(***************************************************************************)
(* Recognition and mode control: every handler that starts, stops or       *)
(* restarts a recognition session or changes the mode, with the AI         *)
(* requests they issue.  The synthesis voices are not loaded in this       *)
(* specification, so speakText completes every call at once.               *)
(***************************************************************************)
NextRec ==
    \/ ToggleNonStopMode
    \/ ToggleNtspMode
    \/ HandleVoiceButtonClick
    \/ ChatInputOnChange
    \/ HandleFormSubmit
    \/ RecOnStart
    \/ RecOnResultPlain
    \/ RecOnError
    \/ RecOnEnd
    \/ RestartTimeout
    \/ InactivityTimeout
    \/ AiReply

SpecRec == Init /\ [][NextRec]_vars


(***************************************************************************)
(* Speech output: Monologue mode and the replay button as callers of       *)
(* speakText, the synthesis events and the auto-stop timer.                *)
(***************************************************************************)
NextSpeech ==
    \/ ToggleNtspMode
    \/ ReplaySpeech
    \/ ToggleMute
    \/ AutoStopSelectOnChange
    \/ VoicesChanged
    \/ UttOnStart
    \/ UttOnEnd
    \/ UttOnError
    \/ UttOnCancelled
    \/ AutoStopTimeout
    \/ AiReply

SpecSpeech == Init /\ [][NextSpeech]_vars

(***************************************************************************)
(* Voice commands: the recognition handlers with every transcript, the     *)
(* render they captured (renewed when the conversation mode changes) and   *)
(* the synthesis events of the confirmations they speak.                   *)
(***************************************************************************)
NextCmd ==
    \/ ToggleNonStopMode
    \/ VoicesChanged
    \/ ToggleConversationMode
    \/ RecOnStart
    \/ RecOnResult
    \/ UttOnError
    \/ UttOnCancelled

SpecCmd == Init /\ [][NextCmd]_vars

(***************************************************************************)
(* Confirmation banner: the voice commands of a NonStop session with the   *)
(* 4 s timeouts that dismiss the banner.                                   *)
(***************************************************************************)
NextBanner ==
    \/ ToggleNonStopMode
    \/ RecOnStart
    \/ RecOnResult
    \/ RecOnEnd
    \/ RestartTimeout
    \/ FeedbackTimeout

SpecBanner == Init /\ [][NextBanner]_vars

(***************************************************************************)
(* Wake word: a NonStop session with the wake-word field and transcripts   *)
(* that exercise the matcher.                                              *)
(***************************************************************************)
NextWake ==
    \/ ToggleNonStopMode
    \/ WakeWordInputOnChange
    \/ RecOnStart
    \/ RecOnResultWake
    \/ RecOnEnd
    \/ RestartTimeout

SpecWake == Init /\ [][NextWake]_vars

(***************************************************************************)
(* Leaving NonStop mode: the handlers through which the user leaves the    *)
(* mode, with the session events and the two timers of the mode.           *)
(***************************************************************************)
NextExit ==
    \/ ToggleNonStopMode
    \/ HandleVoiceButtonClick
    \/ ChatInputOnChange
    \/ HandleNewChat
    \/ HandleOpenImageStudio
    \/ HandleOpenArticleWriter
    \/ RecOnStart
    \/ RecOnEnd
    \/ RestartTimeout
    \/ InactivityTimeout

SpecExit == Init /\ [][NextExit]_vars

(***************************************************************************)
(* The mic button and the mic-mute switch next to a playback started by    *)
(* the replay button, with the session events.                             *)
(***************************************************************************)
NextMic ==
    \/ HandleVoiceButtonClick
    \/ ToggleMicMute
    \/ ToggleNonStopMode
    \/ ReplaySpeech
    \/ VoicesChanged
    \/ UttOnStart
    \/ UttOnEnd
    \/ UttOnCancelled
    \/ RecOnStart
    \/ RecOnEnd
    \/ RestartTimeout

SpecMic == Init /\ [][NextMic]_vars

(***************************************************************************)
(* Every caller of speechSynthesis.speak outside the recognition handlers: *)
(* the replay button, the monologue loop and the Listen button of the      *)
(* learning-card modal, with the synthesis events.                         *)
(***************************************************************************)
NextListen ==
    \/ ReplaySpeech
    \/ ToggleNtspMode
    \/ AiReply
    \/ HandleCardClick
    \/ HandleCloseModal
    \/ HandleListen
    \/ VoicesChanged
    \/ UttOnStart
    \/ UttOnEnd
    \/ UttOnCancelled

SpecListen == Init /\ [][NextListen]_vars

(***************************************************************************)
(* A voice message in NonStop mode from its submission to the next         *)
(* session.  What the platform and the AI service do on their own (session *)
(* events, timeouts, replies) happens eventually; what the user does need  *)
(* not happen.                                                             *)
(***************************************************************************)
NextVoice ==
    \/ ToggleNonStopMode
    \/ ToggleConversationMode
    \/ RecOnStart
    \/ RecOnResultPlain
    \/ RecOnEnd
    \/ OldRecOnEnd
    \/ RestartTimeout
    \/ AiReply

SpecVoice ==
    /\ Init /\ [][NextVoice]_vars
    /\ WF_vars(RecOnStart) /\ WF_vars(RecOnEnd) /\ WF_vars(OldRecOnEnd)
    /\ WF_vars(RestartTimeout) /\ WF_vars(AiReply)

(***************************************************************************)
(* Properties.                                                             *)
(***************************************************************************)
\* C1: while NonStop mode is active the inactivity timer is re-armed by
\* every transcript event, so that 20 s of silence after it end the session:
\* after a result event that leaves NonStop mode on and the session
\* listening, the inactivity timer is pending.
C1_RearmedOnTranscript ==
    (ev.name = "onresult" /\ isNonStopModeRef /\ recState = "running")
        => inactivityLive

\* C2: when a speakText call preempts an utterance that is still queued or
\* playing, the completion callback of the preempted call is never invoked:
\* no step runs the callback of an utterance a later speakText call removed.
C2_PreemptedCallbackDropped ==
    ~ev.cbPre

\* C3: every speakText call invokes its completion callback exactly once,
\* whichever way it completes (end or error event, auto-stop, muted output,
\* empty text, no voice): a step invokes one callback for each call it
\* completes, and every call not yet completed is an utterance that still
\* awaits its end or error event.
C3_CallbackExactlyOnce ==
    /\ ev.cbs = ev.closed
    /\ openCalls = Len(synthQueue) + Cardinality(cancelled)

C3_Witness ==
    /\ ev.name = "utteranceOnEnd" /\ ev.closed = 1 /\ ev.cbs = 1
    /\ ev.request /\ openCalls = 0 /\ ~isBotSpeaking

\* C4: when speech output is muted at the time speakText is called, no
\* utterance is handed to the synthesis engine and the completion callback
\* runs within the call, whoever the caller is.
C4_MutedNeverSpeaks ==
    (ev.spoke /\ isMuted) => (~ev.handed /\ ev.cbs = 1)

\* C5: a 'no-speech' error while NonStop mode is active changes neither the
\* mode, the error banner, the awaiting-command flag nor the user-stopped
\* flag; any other error (and 'no-speech' outside NonStop mode) sets the
\* user-stopped flag, clears awaiting-command, stops the session if it is
\* listening, leaves NonStop mode and shows a message.
C5_ErrorPolicy ==
    [][ev'.name = "onerror" =>
          IF ev'.arg = <<"no-speech">> /\ isNonStopMode
          THEN /\ isNonStopMode' = isNonStopMode
               /\ speechError' = speechError
               /\ isAwaitingCommand' = isAwaitingCommand
               /\ userStoppedRef' = userStoppedRef
          ELSE /\ userStoppedRef'
               /\ ~isAwaitingCommand'
               /\ (isListening => ev'.stopped)
               /\ ~isNonStopMode'
               /\ speechError' = ev'.arg[1]]_vars

C5_Witness ==
    /\ ev.name = "onerror" /\ ev.arg = <<"no-speech">>
    /\ isNonStopMode /\ speechError = "none" /\ ~userStoppedRef

C7_ModesExclusive ==
    /\ ~(isNonStopMode /\ isNtspMode)
    /\ ~(isNonStopModeRef /\ isNtspModeRef)

C7_Witness ==
    /\ ev.name = "toggleNtspMode" /\ isNtspMode /\ ev.stopped /\ ~isNonStopMode

\* C8: entering Monologue mode while NonStop mode is active cancels the
\* inactivity timer, leaves NonStop mode and stops the session with
\* auto-restart suppressed in the handler that issues the first monologue
\* request; while Monologue mode stays active no call of start() takes
\* effect and no session is starting or running.
C8_MonologueTearsDownNonStop ==
    [][/\ (isNonStopMode /\ ~isNtspMode /\ isNtspMode') =>
             /\ ~inactivityLive' /\ ~inactivityTimerRef'
             /\ ~isNonStopMode' /\ ~isNonStopModeRef'
             /\ userStoppedRef'
             /\ recState' \in {"idle", "stopping"}
       /\ (isNtspMode /\ isNtspMode') =>
             /\ ~ev'.started
             /\ (recState \in {"idle", "stopping"} => recState' \in {"idle", "stopping"})
      ]_vars

C8_Witness ==
    /\ ev.name = "toggleNtspMode" /\ isNtspMode /\ ev.stopped
    /\ userStoppedRef /\ recState = "stopping" /\ ev.request

\* C9: after the wake word, 'set auto-stop to N seconds' sets the auto-stop
\* duration to N and 'turn auto-stop off' sets it to 0; neither is submitted
\* as a chat message.
C9_AutoStopCommands ==
    /\ (ev.name = "onresult" /\ ev.chime /\ ev.arg = SetAutoStop15)
          => (autoStopDuration = 15 /\ ~ev.submit)
    /\ (ev.name = "onresult" /\ ev.chime /\ ev.arg = TurnAutoStopOff)
          => (autoStopDuration = 0 /\ ~ev.submit)

\* C10: after the wake word, 'change wake word to X' makes X (trimmed) the
\* wake phrase, shows the confirmation and speaks it when speech output is
\* available, and leaves the session running with later transcripts matched
\* against X.
C10_ChangeWakeWord ==
    (ev.name = "onresult" /\ ev.chime /\ ev.arg = ChangeWakeWord)
        => /\ wakeWord = <<"Assistant">> /\ wakeWordRef = <<"Assistant">>
           /\ voiceCommandFeedback
           /\ (~isMuted /\ voicesLoaded) => ev.handed
           /\ recState = "running" /\ ~ev.stopped

\* C11: a confirmation banner stays displayed for 4 s and is then dismissed,
\* also when two commands follow each other within 4 s: the timeouts expire
\* in the order they were set, so the banner on display is dismissed by its
\* own timeout only if no timeout of a later confirmation is still pending.
C11_BannerFourSeconds ==
    ~(ev.name = "feedbackTimeout" /\ feedbackTimers > 0)

\* W occurs in T at position i as a whitespace-delimited substring, letter
\* case ignored
OccursAt(T, W, i) ==
    /\ i + Len(W) - 1 <= Len(T)
    /\ \A k \in 1..Len(W) : Lower(T[i + k - 1]) = Lower(W[k])
    /\ (i = 1 \/ T[i - 1] = SP)
    /\ (i + Len(W) > Len(T) \/ T[i + Len(W)] = SP)

Occurrences(T, W) == {i \in 1..Len(T) : OccursAt(T, W, i)}

\* the content of T strictly after the first occurrence of W
ContentAfter(T, W) == Trim(Substring(T, Min(Occurrences(T, W)) + Len(W)))

\* C12: whenever the final transcript contains the wake phrase as a
\* whitespace-delimited, case-insensitive substring, the matcher of a
\* NonStop session that waits for the wake word reports a match (chime) and
\* the command text it extracts is the content of the transcript strictly
\* after the wake phrase.
C12_WakeMatch ==
    [][(/\ ev'.name = "onresult" /\ isNonStopModeRef /\ ~isAwaitingCommandRef
        /\ wakeWordRef # <<>> /\ Occurrences(ev'.arg, wakeWordRef) # {})
          => /\ ev'.chime
             /\ ev'.cmd = ContentAfter(ev'.arg, wakeWordRef)]_vars

\* the tokens of W occur in T one after the other, letter case ignored,
\* wherever the occurrence begins and ends
SubstringOf(W, T) ==
    \E i \in 1..Len(T) :
        /\ i + Len(W) - 1 <= Len(T)
        /\ \A k \in 1..Len(W) : Lower(T[i + k - 1]) = Lower(W[k])

\* C13: when the final transcript does not contain the wake phrase, the
\* matcher reports no match: no chime, no command dispatch and the
\* awaiting-command flag keeps its value.
C13_NoWakeNoMatch ==
    [][(/\ ev'.name = "onresult" /\ isNonStopModeRef /\ ~isAwaitingCommandRef
        /\ wakeWordRef # <<>> /\ ~SubstringOf(wakeWordRef, ev'.arg))
          => /\ ~ev'.chime /\ ~ev'.submit
             /\ isAwaitingCommand' = isAwaitingCommand]_vars

\* C14: the wake phrase is non-empty in every reachable state.
C14_WakePhraseNonEmpty ==
    wakeWord # <<>> /\ wakeWordRef # <<>>

\* C15: a start() call made while a session is starting or running fails,
\* creates no second session and leaves the mode, the session and the
\* user-stopped flag as they were; a start() call that succeeds leaves the
\* user-stopped flag cleared.
C15_StartWhileActive ==
    [][/\ (ev'.threw /\ recState \in {"starting", "running"})
            => /\ recState' = recState
               /\ isNonStopMode' = isNonStopMode
               /\ isListening' = isListening
               /\ userStoppedRef' = userStoppedRef
       /\ ev'.started => ~userStoppedRef'
      ]_vars

\* C16: the handler that switches Monologue mode on issues a monologue
\* request, and while the mode stays active the end of the playback of a
\* monologue reply issues the next request.
C16_MonologueStartsLoop ==
    [][/\ (~isNtspMode /\ isNtspMode') => ev'.request
       /\ (/\ ev'.name = "utteranceOnEnd" /\ isNtspModeRef /\ isNtspMode'
           /\ Head(synthQueue).cb \in {"ntspStart", "mono"}) => ev'.request
      ]_vars

\* C17: a failed request of the monologue loop, its very first request
\* included, leaves Monologue mode and puts an error message in the
\* transcript; and Monologue mode is never active while no request is in
\* flight and nothing is queued for playback.
C17_MonologueFailureExits ==
    /\ [](isNtspMode => (aiPending # {} \/ synthQueue # <<>>))
    /\ [][\A req \in aiPending \ aiPending' :
            (/\ ev'.name = "aiReply" /\ ev'.errorMsg /\ isNtspMode
             /\ (req.kind = "mono" \/ req.isNtspStart))
                => ~isNtspMode'
         ]_vars

\* C18: switching Monologue mode off cancels the playback, and the reply
\* to a monologue request that was in flight when the mode was left is
\* neither appended to the transcript and spoken nor followed by another
\* request.
C18_MonologueExitHalts ==
    [][/\ (ev'.name = "toggleNtspMode" /\ isNtspMode /\ ~isNtspMode')
            => (ev'.synthCancel /\ ~ev'.request)
       /\ \A req \in aiPending \ aiPending' :
            (/\ ev'.name = "aiReply" /\ ~isNtspMode
             /\ (req.kind = "mono" \/ req.isNtspStart))
                => (~ev'.spoke /\ ~ev'.request /\ synthQueue' = synthQueue)
      ]_vars

UserExits ==
    {"toggleNonStopMode", "handleVoiceButtonClick", "chatInputOnChange",
     "handleNewChat", "handleOpenImageStudio", "handleOpenArticleWriter"}

\* C19: every handler through which the user leaves NonStop mode cancels
\* the inactivity timer, stops the session with the auto-restart
\* suppressed and cancels the playback, so no session is left listening.
C19_UserExitStopsAll ==
    [][(isNonStopMode /\ ~isNonStopMode' /\ ev'.name \in UserExits)
          => /\ ~inactivityLive'
             /\ recState' \notin {"starting", "running"}
             /\ userStoppedRef'
             /\ ev'.synthCancel
      ]_vars

RestartWanted == isNonStopModeRef /\ ~userStoppedRef

\* C20: the end event of a session sets the restart timeout exactly when
\* NonStop mode is active and no stop was requested, which covers every
\* session that ended in NonStop mode without a stop by the user or an
\* error; when the timeout expires it starts a new session if NonStop mode
\* is still active, no stop was requested and the application is not
\* listening, and otherwise it starts nothing and the session state stays
\* as it is.
C20_RestartAfterDelay ==
    [][/\ ev'.name = "onend" =>
            /\ Len(restartTimers') = Len(restartTimers) + (IF RestartWanted THEN 1 ELSE 0)
            /\ (ev'.arg = <<"none">> /\ isNonStopModeRef) => RestartWanted
            /\ ~ev'.started
       /\ ev'.name = "restartTimeout" =>
            /\ Len(restartTimers') = Len(restartTimers) - 1
            /\ IF RestartWanted /\ ~isListeningRef
               THEN /\ ev'.started \/ ev'.threw
                    /\ recState = "idle" => (ev'.started /\ recState' = "starting")
               ELSE ~ev'.started /\ ~ev'.threw /\ recState' = recState
      ]_vars

C20_Witness ==
    /\ ev.name = "restartTimeout" /\ ev.timerTag = "none" /\ ev.started
    /\ isNonStopMode /\ recState = "starting" /\ ~userStoppedRef

\* the command text of a transcript that starts with the one-word wake phrase
CommandOf(t) == SubSeq(t, 3, Len(t))

\* C21: the command text after a wake-word match is dispatched by the
\* first rule that applies, in the order change-wake-word, auto-stop, other
\* non-empty text (submitted, session stopped), empty text (awaiting
\* command, session left running), and only the outcome of that rule
\* occurs.
C21_DispatchPriority ==
    [][(ev'.name = "onresult" /\ ev'.chime) =>
        LET confirmed == feedbackTimers' = feedbackTimers + 1
            submitted == ev'.submit /\ ev'.stopped
            awaiting  == isAwaitingCommand' /\ recState' = "running"
        IN  IF ev'.cmd = CommandOf(ChangeWakeWord)
            THEN /\ wakeWord' = <<"Assistant">> /\ confirmed
                 /\ ~ev'.submit /\ ~ev'.stopped /\ ~isAwaitingCommand'
                 /\ autoStopDuration' = autoStopDuration
            ELSE IF ev'.cmd \in {CommandOf(SetAutoStop15), CommandOf(TurnAutoStopOff)}
            THEN /\ autoStopDuration' = (IF ev'.cmd = CommandOf(SetAutoStop15) THEN 15 ELSE 0)
                 /\ confirmed
                 /\ ~ev'.submit /\ ~ev'.stopped /\ ~isAwaitingCommand'
                 /\ wakeWord' = wakeWord
            ELSE IF ev'.cmd # <<>>
            THEN /\ submitted /\ ~confirmed /\ ~isAwaitingCommand'
                 /\ wakeWord' = wakeWord /\ autoStopDuration' = autoStopDuration
            ELSE /\ awaiting /\ ~confirmed /\ ~ev'.submit /\ ~ev'.stopped
                 /\ wakeWord' = wakeWord /\ autoStopDuration' = autoStopDuration
      ]_vars

\* C22: outside NonStop mode a result event with a non-empty final
\* transcript stops the session with the auto-restart suppressed and
\* submits the transcript as a chat message, which sends it to the AI
\* when the user is known and nothing is loading; a result event with
\* interim text only shows the text in the input field and submits nothing.
C22_ManualFinalSubmitted ==
    [][(ev'.name = "onresult" /\ ~isNonStopModeRef) =>
        IF ev'.arg # <<>>
        THEN /\ ev'.submit /\ ev'.stopped
             /\ userStoppedRef' /\ recState' = "stopping"
             /\ ((hasUserName \/ isConversationMode) /\ ~isLoading) => ev'.request
        ELSE /\ ~ev'.submit /\ ~ev'.stopped /\ ~ev'.request
             /\ inputValue' /\ recState' = recState
      ]_vars

\* C23: in NonStop mode with the awaiting-command flag set, a result event
\* with a non-empty final transcript submits the transcript as a chat
\* message without matching the wake word (sending it to the AI when the
\* user is known and nothing is loading), clears the flag and stops the
\* session; a result event with interim text only leaves the flag set and
\* the session running.
C23_AwaitingCommandPayload ==
    [][(ev'.name = "onresult" /\ isNonStopModeRef /\ isAwaitingCommandRef) =>
        IF ev'.arg # <<>>
        THEN /\ ~ev'.chime /\ ev'.submit /\ ev'.stopped
             /\ ~isAwaitingCommand' /\ recState' = "stopping"
             /\ ((hasUserName \/ isConversationMode) /\ ~isLoading) => ev'.request
        ELSE /\ isAwaitingCommand' /\ ~ev'.submit /\ ~ev'.stopped
             /\ recState' = recState
      ]_vars

\* C24: when an utterance starts playing, an auto-stop timer is armed for
\* it if and only if the configured auto-stop duration is positive; an
\* auto-stop timer that fires cancels the utterance it was armed for, whose
\* completion callback then runs as for a natural end, and never another
\* utterance (the timer is cleared when its utterance finishes).
C24_AutoStopTimer ==
    [][/\ ev'.name = "utteranceOnStart" =>
            (Head(synthQueue).id \in autoStopTimers') = (autoStopDuration > 0)
       /\ ev'.name = "autoStopTimeout" =>
            \A id \in autoStopTimers \ autoStopTimers' :
                /\ \A k \in 1..Len(synthQueue) : synthQueue[k].id = id
                /\ \A u \in cancelled' \ cancelled : u.id = id /\ ~u.pre
      ]_vars

C26_SingleFlight ==
    /\ [](Len(synthQueue) <= 1)
    /\ [][(ev'.handed /\ synthQueue # <<>>) => ev'.synthCancel]_vars

\* C27: the awaiting-command flag is set only while NonStop mode is
\* active: every handler that leaves NonStop mode leaves the flag cleared.
C27_AwaitingOnlyInNonStop ==
    isAwaitingCommand => isNonStopMode

\* C28: NonStop mode never gets stuck deaf: after a result event in NonStop
\* mode has submitted a message, a recognition session is eventually
\* listening again or NonStop mode has been left.
C28_NeverStuckDeaf ==
    (ev.name = "onresult" /\ ev.submit /\ isNonStopMode)
        ~> (isListening \/ ~isNonStopMode)

\* C29: while the microphone-mute flag is set no handler starts a
\* recognition session: neither the mic button nor the NonStop toggle, the
\* restart after a playback or the delayed restart.
C29_MicMuteBlocksStart ==
    [][ev'.started => ~isMicMuted]_vars

\* the result handler as it would act if the functions it calls were those
\* of the current render
OnResultCurrent(t) ==
    Render(recognitionOnResult([Step("onresult", t) EXCEPT !.cap = Snapshot(Closure(Pack))],
                               t))

\* C30: a result event that submits a message acts on the application
\* state current at that moment: the user name, the transcript, the
\* loading flag, the request to the AI and the utterance handed to the
\* synthesis engine are those that submitting the same text through the
\* functions of the current render produces.
C30_VoiceSubmitUsesCurrentState ==
    [][(ev'.name = "onresult" /\ ev'.submit) =>
        LET n == OnResultCurrent(ev'.arg)
        IN  /\ ev'.request = n.ev.request
            /\ ev'.handed = n.ev.handed
            /\ hasUserName' = n.hasUserName
            /\ hasMessages' = n.hasMessages
            /\ isLoading' = n.isLoading
            /\ Cardinality(aiPending') = Cardinality(n.aiPending)
            /\ Len(synthQueue') = Len(n.synthQueue)
      ]_vars

=============================================================================
